---- MODULE Spec2Model ----
(***************************************************************************)
(* picoLok: classes/operationmode.py                                       *)
(*                                                                         *)
(* ELECTRICAL (track driver: power, overcurrent check, packet framing,     *)
(* buffer hand-off to the PIO state machine) and OPERATIONS (one object    *)
(* per locomotive, inheriting from ELECTRICAL).                            *)
(*                                                                         *)
(* Python integers are unbounded.  A bit stream or a 32-bit transfer word  *)
(* is modelled as the sequence of its binary digits, most significant      *)
(* first, without leading zeros (the integer 0 is the empty sequence), so  *)
(* that 64- and 96-bit streams are exact.  Byte-sized values are ordinary  *)
(* integers.                                                               *)
(***************************************************************************)
EXTENDS Integers, Sequences, FiniteSets

\* ------------------------------------------------------------------ bounds

\* the clock stops advancing at MaxTime (ms)
MaxTime == 301
\* longest instruction handed to prepare() in the packer specification
MaxPacketLen == 6
\* the most functions of one locomotive switched on at the same time
MaxOn == 3
\* greatest speed step handed to the speed encoders
MaxSpeed == 130

\* ------------------------------------------------------- program constants

SHORT == 1000
PREAMBLE == 14
\* interval of the periodic overcurrent check (ms), send2track
CHECK_INTERVAL == 100
\* utime.sleep_ms(100) in begin() and deinit()
SLEEP_MS == 100
\* width of a transfer word
WORD_BITS == 32

\* ---------------------------------------------------- integers as bit rows

Zeros(n) == [i \in 1..n |-> 0]

RECURSIVE Norm(_)
\* drop leading zeros: the canonical form of an integer
Norm(s) == IF s = <<>> THEN <<>>
           ELSE IF Head(s) = 0 THEN Norm(Tail(s)) ELSE s

\* stream <<= k
ShiftLeft(s, k) == IF s = <<>> THEN <<>> ELSE s \o Zeros(k)

\* left-pad with zeros to n digits
PadTo(s, n) == IF Len(s) >= n THEN s ELSE Zeros(n - Len(s)) \o s

Max2(a, b) == IF a >= b THEN a ELSE b

\* a | b on bit rows
OrBits(a, b) ==
    LET n == Max2(Len(a), Len(b))
        pa == PadTo(a, n)
        pb == PadTo(b, n)
    IN  Norm([i \in 1..n |-> IF pa[i] = 1 \/ pb[i] = 1 THEN 1 ELSE 0])

\* stream |= 1
OrOne(s) == OrBits(s, <<1>>)

\* stream >> k
ShiftRight(s, k) == IF Len(s) <= k THEN <<>> ELSE SubSeq(s, 1, Len(s) - k)

\* stream & 0xffffffff
LowWord(s) == IF Len(s) <= WORD_BITS THEN s
              ELSE Norm(SubSeq(s, Len(s) - WORD_BITS + 1, Len(s)))

\* ------------------------------------------- bitwise operators on integers

RECURSIVE Pow2(_)
Pow2(n) == IF n = 0 THEN 1 ELSE 2 * Pow2(n - 1)

\* bit k of a (a may be negative: two's complement, as in Python)
Bit(a, k) == (a \div Pow2(k)) % 2

RECURSIVE NatAnd(_, _)
NatAnd(a, b) == IF a = 0 \/ b = 0 THEN 0
                ELSE 2 * NatAnd(a \div 2, b \div 2)
                     + (IF a % 2 = 1 /\ b % 2 = 1 THEN 1 ELSE 0)

RECURSIVE NatOr(_, _)
NatOr(a, b) == IF a = 0 THEN b
               ELSE IF b = 0 THEN a
               ELSE 2 * NatOr(a \div 2, b \div 2)
                    + (IF a % 2 = 1 \/ b % 2 = 1 THEN 1 ELSE 0)

RECURSIVE NatXor(_, _)
NatXor(a, b) == IF a = 0 THEN b
                ELSE IF b = 0 THEN a
                ELSE 2 * NatXor(a \div 2, b \div 2)
                     + (IF a % 2 # b % 2 THEN 1 ELSE 0)

\* a & mask for a byte-sized non-negative mask; a is any integer
AndMask(a, mask) == NatAnd(a % 256, mask)

\* ------------------------------------------------- ELECTRICAL: the packer
\* (each loop is a recursion over its iterations; the test Len(next) >= 0 is
\* always true and only makes TLC compute the running value at every step)

RECURSIVE to_bin_from(_, _, _)
\* the loop of to_bin from index j on, with the running value stream
to_bin_from(num, j, stream) ==
    IF j > 7 THEN stream
    ELSE LET next == ShiftLeft(IF Bit(num, 7 - j) = 1 THEN OrOne(stream) ELSE stream, 1)
         IN  IF Len(next) >= 0 THEN to_bin_from(num, j + 1, next) ELSE next

\* the mutant reads the byte least significant bit first
to_bin_lsb_first(num) ==
    LET RECURSIVE go(_, _)
        go(j, stream) ==
            IF j > 7 THEN stream
            ELSE LET next == ShiftLeft(IF Bit(num, j) = 1 THEN OrOne(stream) ELSE stream, 1)
                 IN  IF Len(next) >= 0 THEN go(j + 1, next) ELSE next
    IN  go(0, <<>>)

\* to_bin(num): the 8 low bits of num, MSB first, followed by one 0
to_bin(num) == to_bin_from(num, 0, <<>>)

RECURSIVE XorAll(_)
\* err = 0; for byte in packet: err ^= byte
XorAll(p) == IF p = <<>> THEN 0 ELSE NatXor(XorAll(SubSeq(p, 1, Len(p) - 1)), p[Len(p)])

RECURSIVE preamble_loop(_, _)
\* for i in range(0, n): stream |= 1; stream <<= 1
preamble_loop(n, stream) ==
    IF n = 0 THEN stream
    ELSE LET next == ShiftLeft(OrOne(stream), 1)
         IN  IF Len(next) >= 0 THEN preamble_loop(n - 1, next) ELSE next

RECURSIVE bytes_loop(_, _)
\* for i in packet: stream <<= 9; stream |= to_bin(i)
bytes_loop(p, stream) ==
    IF p = <<>> THEN stream
    ELSE LET next == OrBits(ShiftLeft(stream, 9), to_bin(Head(p)))
         IN  IF Len(next) >= 0 THEN bytes_loop(Tail(p), next) ELSE next

\* the mutant adds no padding to the minimum preamble
padding_none(bits) == 0

\* padding = 32 - (bits % 32)
padding_for(bits) == WORD_BITS - (bits % WORD_BITS)

\* the mutant leaves the checksum byte out
checksum_missing(p) == p

\* packet.append(err)
with_checksum(p) == Append(p, XorAll(p))

\* prepare(packet): [count |-> number of words, stream |-> bit stream]
prepare(p) ==
    IF 2 <= Len(p) /\ Len(p) <= 5
    THEN LET pk      == with_checksum(p)
             bits    == PREAMBLE + Len(pk) * 9 + 1
             padding == padding_for(bits)
             s1      == preamble_loop(padding + PREAMBLE, <<>>)
             s2      == bytes_loop(pk, s1)
         IN  [count |-> (padding + bits) \div WORD_BITS, stream |-> OrOne(s2)]
    ELSE [count |-> 0, stream |-> <<>>]

\* prepare() has no raise statement: whatever the length of the instruction,
\* it returns to its caller (return l, w; l and w are 0 when it framed nothing)
prepare_raises(p) == FALSE

\* IDLE = [0b1111..., 0b11110111111110000000000111111111]
IDLE == << <<1,1,1,1,1,1,1,1,1,1,1,1,1,1,1,1,1,1,1,1,1,1,1,1,1,1,1,1,1,1,1,1>>,
           <<1,1,1,1,0,1,1,1,1,1,1,1,1,0,0,0,0,0,0,0,0,0,0,1,1,1,1,1,1,1,1,1>> >>

\* EMERG = [0b1111..., 0b11110000000000010000010010000011]
EMERG == << <<1,1,1,1,1,1,1,1,1,1,1,1,1,1,1,1,1,1,1,1,1,1,1,1,1,1,1,1,1,1,1,1>>,
            <<1,1,1,1,0,0,0,0,0,0,0,0,0,0,0,1,0,0,0,0,0,1,0,0,1,0,0,0,0,0,1,1>> >>

\* packet_words(pk): the loop of buffering() over one packet,
\*   while l > 0: l -= 1; buffer.append(w >> l * 32 & 0xffffffff)
packet_words(pk) ==
    [k \in 1..pk.count |-> LowWord(ShiftRight(pk.stream, (pk.count - k) * WORD_BITS))]

\* ------------------------------------------- ELECTRICAL: the speed encoders

\* speed_control_14steps: pass (returns None, the result is never used)
speed_control_14steps(direction, speed) == <<>>

\* the mutant puts the direction in bit 6
speed_control_128steps_dir6(direction, speed) ==
    LET code == IF speed = -1 THEN 1
                ELSE IF speed = 0 THEN 0
                ELSE AndMask(IF speed < 126 THEN speed + 2 ELSE speed, 126)
    IN  AndMask(NatOr(code, direction * 64), 255)

\* speed_control_128steps(direction, speed)
speed_control_128steps(direction, speed) ==
    LET code == IF speed = -1 THEN 1
                ELSE IF speed = 0 THEN 0
                ELSE AndMask(IF speed < 126 THEN speed + 2 ELSE speed, 126)
    IN  AndMask(NatOr(code, direction * 128), 255)

\* speed_control_28steps(direction, speed)
speed_control_28steps(direction, speed) ==
    LET sp    == IF speed < 28 THEN speed ELSE 28
        temp  == sp + 3
        cssss == IF sp = -1 THEN 0
                 ELSE IF 0 <= sp /\ sp <= 28
                      THEN IF sp = 0 THEN 0
                           ELSE NatOr(AndMask(temp, 1) * 16, temp \div 2)
                      ELSE 0
    IN  AndMask(NatOr(NatOr(64, direction * 32), cssss), 255)

\* ------------------------------------------ OPERATIONS: function encoding

get_function_group_index(function_nr) ==
    IF function_nr < 5 THEN 0 ELSE IF function_nr < 9 THEN 1 ELSE 2

\* the mutant takes the shift from the function number itself
get_function_shift_mod(function_nr) == function_nr % 4

get_function_shift(function_nr) ==
    IF function_nr = 0 THEN 4 ELSE (function_nr - 1) % 4

function_control(funktion) ==
    IF 0 <= funktion /\ funktion <= 4 THEN 128
    ELSE IF 5 <= funktion /\ funktion <= 8 THEN NatOr(128, 48)
    ELSE IF 9 <= funktion /\ funktion <= 12 THEN NatOr(128, 32)
    ELSE 128

\* functions[g] |= ((1 << shift) | prefix)
function_set(byte, function_nr) ==
    NatOr(byte, NatOr(Pow2(get_function_shift(function_nr)), function_control(function_nr)))

\* functions[g] &= (~(1 << shift) | prefix); the byte is below 256, so the
\* mask acts through its low 8 bits, ~(1 << shift) & 0xff = 255 - (1 << shift)
function_clear(byte, function_nr) ==
    NatAnd(byte, NatOr(255 - Pow2(get_function_shift(function_nr)),
                       function_control(function_nr)))

\* --------------------------------------------------------------- the state

\* objects are numbered in construction order; the program constructs one
\* object (Spec) or two (SpecTwo)
Obj == {1, 2}

\* the constructor arguments the program uses; registered = (address != None)
Configs ==
    { [registered |-> TRUE,  address |-> 3,    use_long_address |-> FALSE, speedsteps |-> 128],
      [registered |-> TRUE,  address |-> 1000, use_long_address |-> TRUE,  speedsteps |-> 28],
      [registered |-> FALSE, address |-> 0,    use_long_address |-> FALSE, speedsteps |-> 128] }

\* the arguments of drive(richtung, fahrstufe) the program uses
DriveInputs == { <<1, 50>>, <<0, 0>> }

\* the arguments of set_function(function_nr, status) the program uses
FunctionInputs == { <<0, TRUE>>, <<0, FALSE>>, <<13, TRUE>>, <<-1, FALSE>> }

\* the values get_current() returns (mA)
Samples == { SHORT, SHORT + 1 }

\* the clock advances in steps of TickStep ms between calls
TickStep == 101

VARIABLES
    nobj,              \* number of OPERATIONS objects constructed so far
    locos,             \* ELECTRICAL.locos, the class-wide registry (object ids)
    address,           \* per object: self.address
    use_long_address,  \* per object: self.use_long_address
    speedsteps,        \* per object: self.speedsteps
    current_speed,     \* per object: self.current_speed as <<Dir, FS>>
    functions,         \* per object: self.functions, three group bytes
    power_pin,         \* the POWER_PIN output, shared by all objects
    power_state,       \* per object: self.power_state
    buffer_dirty,      \* per object: self.buffer_dirty
    emergency,         \* per object: self.emergency
    ringbuffer,        \* per object: self.ringbuffer
    messtimer,         \* per object: self.messtimer
    now,               \* utime.ticks_ms()
    last,              \* what the most recent begin()/loop() call did
    sent,              \* per object: the words its latest completed loop() pushed
    clean,             \* per object: it completed a loop() and no drive,
                       \*   set_function or emergency_stop was called since
    pending,           \* drive/set_function was called on a registered
                       \*   locomotive and no loop() has completed since
    checked_at,        \* the time of the most recent chk_short(), -1 before the
                       \*   first and after one that raised
    estopped,          \* per object: "called" after emergency_stop(), "sent" once a
                       \*   loop() has pushed the emergency buffer, "no" after drive()
    fcall,             \* the set_function() call made by the latest step, if any
    packet,            \* packer specification: the argument of prepare()
    result,            \* packer specification: what prepare() returned
    enc,               \* encoder specification: the arguments and the result
    pc,                \* hand-off specification: where loop() stands
    irq_enabled,       \* hand-off specification: interrupts are enabled
    queue,             \* hand-off specification: the words still to be pushed
    pushed             \* hand-off specification: the words pushed by this loop()

locoVars == <<address, use_long_address, speedsteps, current_speed, functions>>
elecVars == <<power_state, buffer_dirty, emergency, ringbuffer, messtimer>>
progVars == <<nobj, locos, locoVars, power_pin, elecVars>>
histVars == <<sent, clean, pending>>
obsVars == <<checked_at, estopped, fcall>>
packVars == <<packet, result>>
encVars == <<enc>>
irqVars == <<pc, irq_enabled, queue, pushed>>
sideVars == <<packVars, encVars, irqVars>>
vars == <<progVars, now, last, histVars, obsVars, sideVars>>

\* -------------------------------------------- ELECTRICAL: buffer rebuild

RegisteredObj(o) == \E i \in 1..Len(locos) : locos[i] = o

\* the address bytes generate_instructions() puts in front of an instruction
address_bytes(o) ==
    IF use_long_address[o]
    THEN <<NatOr(192, address[o] \div 256), AndMask(address[o], 255)>>
    ELSE <<address[o]>>

\* the speed and direction instruction of one locomotive
speed_instruction(o) ==
    LET richtung  == current_speed[o][1]
        fahrstufe == current_speed[o][2]
    IN  IF speedsteps[o] = 128
        THEN address_bytes(o) \o <<63, speed_control_128steps(richtung, fahrstufe)>>
        ELSE IF speedsteps[o] = 28
        THEN address_bytes(o) \o <<speed_control_28steps(richtung, fahrstufe)>>
        ELSE address_bytes(o)

\* get_function(function_nr) read from the group bytes fs
get_function_of(fs, function_nr) ==
    IF 0 <= function_nr /\ function_nr <= 12
    THEN NatAnd(fs[get_function_group_index(function_nr) + 1],
                Pow2(get_function_shift(function_nr))) # 0
    ELSE FALSE

\* get_function(function_nr) of object o
get_function(o, function_nr) == get_function_of(functions[o], function_nr)

\* the instruction of one function group
function_instruction(o, f) == address_bytes(o) \o <<f>>

\* the mutant sends only the first function group
loco_packets_one_group(o) ==
    << prepare(speed_instruction(o)),
       prepare(function_instruction(o, functions[o][1])) >>

\* the packets of one locomotive: speed, then one per entry of loco.functions
loco_packets(o) ==
    << prepare(speed_instruction(o)) >>
    \o [g \in 1..Len(functions[o]) |-> prepare(function_instruction(o, functions[o][g]))]

RECURSIVE instructions_of(_)
\* the loop of generate_instructions() over a list of locomotives
instructions_of(ls) ==
    IF ls = <<>> THEN <<>> ELSE loco_packets(Head(ls)) \o instructions_of(Tail(ls))

\* generate_instructions(): the packets [count, stream] in transmission order
generate_instructions == instructions_of(locos)

RECURSIVE words_of(_)
\* the loop of buffering() over the packets
words_of(pks) ==
    IF pks = <<>> THEN <<>> ELSE packet_words(Head(pks)) \o words_of(Tail(pks))

\* for i in range(5): for e in self.EMERG: buffer.append(e)
emergency_buffer == EMERG \o EMERG \o EMERG \o EMERG \o EMERG

\* the else branch of buffering(): the rebuilt buffer, IDLE when it is empty
rebuilt_buffer ==
    LET buffer == words_of(generate_instructions)
    IN  IF buffer = <<>> THEN IDLE ELSE buffer

\* buffering() of object o: the buffer it returns, the value it leaves in
\* self.emergency, and whether it called generate_instructions()
buffering(o) ==
    IF emergency[o]
    THEN [buffer |-> emergency_buffer, emergency |-> FALSE, rebuilt |-> FALSE]
    ELSE [buffer |-> rebuilt_buffer, emergency |-> emergency[o], rebuilt |-> TRUE]

\* the retained buffer, nothing rebuilt
resend(o) == [buffer |-> ringbuffer[o], emergency |-> emergency[o], rebuilt |-> FALSE]

\* the mutant rebuilds on every cycle
select_buffer_always(o) == buffering(o)

\* send2track: if self.buffer_dirty: buffer = self.buffering()
\*             else: buffer = self.ringbuffer
select_buffer(o) == IF buffer_dirty[o] THEN buffering(o) ELSE resend(o)

\* -------------------------------------------------- ELECTRICAL: chk_short

\* the mutant trips at the threshold itself
chk_short_at_threshold(sample) == sample >= SHORT

\* chk_short(): get_current() > SHORT raises RuntimeError
chk_short_raises(sample) == sample > SHORT

\* send2track: utime.ticks_ms() - self.messtimer > 100
check_due(o) == now - messtimer[o] > CHECK_INTERVAL

\* the mutant lets loop() go on to send2track() with the power off
loop_never_raises(o) == FALSE

\* loop(): if self.power_state == False: raise RuntimeError("Power is off")
loop_raises_power_off(o) == power_state[o] = FALSE

\* ------------------------------------------------------------ the actions

\* the record kept of a call: which call on which object, how it ended
\* ("ok", "short": chk_short() raised, "poweroff": loop() raised), the words it
\* pushed with statemachine.put(), whether it called generate_instructions(),
\* how many times it called chk_short() and the last current it sampled, and
\* whether it is a loop() following a completed loop() of the same object with
\* no drive, set_function or emergency_stop in between
NoCall == [op |-> "none", obj |-> 0, outcome |-> "none", handed |-> <<>>,
           rebuilt |-> FALSE, checks |-> 0, sample |-> 0, again |-> FALSE]

Call(op, o, outcome, handed, rebuilt, checks, sample, again) ==
    [op |-> op, obj |-> o, outcome |-> outcome, handed |-> handed,
     rebuilt |-> rebuilt, checks |-> checks, sample |-> sample, again |-> again]

\* no set_function() call in the latest step
NoFunctionCall == [obj |-> 0, function_nr |-> 0, status |-> FALSE]

\* nothing observed yet
obsIdle ==
    /\ checked_at = -1
    /\ estopped = [o \in Obj |-> "no"]
    /\ fcall = NoFunctionCall

\* prepare() has not been called
NoResult == [done |-> FALSE, raised |-> FALSE, count |-> 0, stream |-> <<>>]

\* speed_control_*() has not been called
NoEncode == [done |-> FALSE, mode |-> 0, direction |-> 0, speed |-> 0, byte |-> 0]

encIdle == enc = NoEncode

\* outside loop(): interrupts enabled, nothing being pushed
irqIdle ==
    /\ pc = "idle"
    /\ irq_enabled = TRUE
    /\ queue = <<>>
    /\ pushed = <<>>

Init ==
    /\ nobj = 0
    /\ locos = <<>>
    /\ address = [o \in Obj |-> 0]
    /\ use_long_address = [o \in Obj |-> FALSE]
    /\ speedsteps = [o \in Obj |-> 128]
    /\ current_speed = [o \in Obj |-> <<1, 0>>]
    /\ functions = [o \in Obj |-> <<128, 176, 160>>]
    /\ power_pin = FALSE
    /\ power_state = [o \in Obj |-> FALSE]
    /\ buffer_dirty = [o \in Obj |-> FALSE]
    /\ emergency = [o \in Obj |-> FALSE]
    /\ ringbuffer = [o \in Obj |-> <<>>]
    /\ messtimer = [o \in Obj |-> 0]
    /\ now = 0
    /\ last = NoCall
    /\ sent = [o \in Obj |-> <<>>]
    /\ clean = [o \in Obj |-> FALSE]
    /\ pending = FALSE
    /\ obsIdle
    /\ packet = <<>>
    /\ result = NoResult
    /\ encIdle
    /\ irqIdle

\* OPERATIONS.__init__(address, use_long_address, speedsteps) of the next object
Create(c) ==
    /\ nobj = 0
    /\ LET o == nobj + 1 IN
        /\ nobj' = o
        /\ power_state' = [power_state EXCEPT ![o] = power_pin]
        /\ buffer_dirty' = [buffer_dirty EXCEPT ![o] = FALSE]
        /\ emergency' = [emergency EXCEPT ![o] = FALSE]
        /\ ringbuffer' = [ringbuffer EXCEPT ![o] = <<>>]
        /\ messtimer' = [messtimer EXCEPT ![o] = now]
        /\ IF c.registered
           THEN /\ address' = [address EXCEPT ![o] = c.address]
                /\ use_long_address' = [use_long_address EXCEPT ![o] = c.use_long_address]
                /\ current_speed' = [current_speed EXCEPT ![o] = <<1, 0>>]
                /\ speedsteps' = [speedsteps EXCEPT ![o] = c.speedsteps]
                /\ functions' = [functions EXCEPT ![o] = <<128, 176, 160>>]
                /\ locos' = Append(locos, o)
           ELSE UNCHANGED <<locoVars, locos>>
    /\ last' = NoCall
    /\ UNCHANGED <<power_pin, now, histVars, sideVars>>

\* the clock advances between two calls
Tick ==
    /\ now + TickStep <= MaxTime
    /\ now' = now + TickStep
    /\ last' = NoCall
    /\ UNCHANGED <<progVars, histVars, sideVars>>

\* begin(): power_on() (which ends with chk_short()), chk_short(), sleep_ms(100);
\* a chk_short() that raises ends the call with the power on.  power_on() also
\* stores self.power_time, which nothing reads.
begin(o) ==
    /\ o <= nobj
    /\ now + SLEEP_MS <= MaxTime
    /\ power_pin' = TRUE
    /\ power_state' = [power_state EXCEPT ![o] = TRUE]
    /\ \E s1, s2 \in Samples :
          IF chk_short_raises(s1)
          THEN /\ last' = Call("begin", o, "short", <<>>, FALSE, 1, s1, FALSE)
               /\ now' = now
          ELSE IF chk_short_raises(s2)
          THEN /\ last' = Call("begin", o, "short", <<>>, FALSE, 2, s2, FALSE)
               /\ now' = now
          ELSE /\ last' = Call("begin", o, "ok", <<>>, FALSE, 2, s2, FALSE)
               /\ now' = now + SLEEP_MS
    /\ UNCHANGED <<nobj, locos, locoVars, buffer_dirty, emergency, ringbuffer,
                   messtimer, histVars, sideVars>>

\* deinit(): power_off() when the power is on, sleep_ms(100), emergency_stop()
deinit(o) ==
    /\ o <= nobj
    /\ now + SLEEP_MS <= MaxTime
    /\ IF power_state[o]
       THEN /\ power_pin' = FALSE
            /\ power_state' = [power_state EXCEPT ![o] = FALSE]
       ELSE UNCHANGED <<power_pin, power_state>>
    /\ now' = now + SLEEP_MS
    /\ emergency' = [emergency EXCEPT ![o] = TRUE]
    /\ clean' = [p \in Obj |-> FALSE]
    /\ last' = NoCall
    /\ UNCHANGED <<nobj, locos, locoVars, buffer_dirty, ringbuffer, messtimer,
                   sent, pending, sideVars>>

\* emergency_stop()
emergency_stop(o) ==
    /\ o <= nobj
    /\ emergency' = [emergency EXCEPT ![o] = TRUE]
    /\ clean' = [p \in Obj |-> FALSE]
    /\ last' = NoCall
    /\ UNCHANGED <<nobj, locos, locoVars, power_pin, power_state, buffer_dirty,
                   ringbuffer, messtimer, now, sent, pending, sideVars>>

\* drive(richtung, fahrstufe)
drive(o, richtung, fahrstufe) ==
    /\ o <= nobj
    /\ current_speed' = [current_speed EXCEPT ![o] = <<richtung, fahrstufe>>]
    /\ buffer_dirty' = [buffer_dirty EXCEPT ![o] = TRUE]
    /\ clean' = [p \in Obj |-> FALSE]
    /\ pending' = (pending \/ RegisteredObj(o))
    /\ last' = NoCall
    /\ UNCHANGED <<nobj, locos, address, use_long_address, speedsteps, functions,
                   power_pin, power_state, emergency, ringbuffer, messtimer, now,
                   sent, sideVars>>

\* set_function(function_nr, status); an object constructed without an
\* address has no self.functions: an in-range call on it raises AttributeError
\* before anything is assigned
set_function(o, function_nr, status) ==
    /\ o <= nobj
    /\ LET in_range == 0 <= function_nr /\ function_nr <= 12
           g        == get_function_group_index(function_nr) + 1
       IN  IF in_range /\ ~RegisteredObj(o)
           THEN UNCHANGED <<functions, buffer_dirty, clean, pending>>
           ELSE /\ functions' =
                      IF in_range
                      THEN [functions EXCEPT ![o][g] =
                               IF status THEN function_set(@, function_nr)
                                         ELSE function_clear(@, function_nr)]
                      ELSE functions
                /\ buffer_dirty' = [buffer_dirty EXCEPT ![o] = TRUE]
                /\ clean' = [p \in Obj |-> FALSE]
                /\ pending' = (pending \/ RegisteredObj(o))
    /\ last' = NoCall
    /\ UNCHANGED <<nobj, locos, address, use_long_address, speedsteps, current_speed,
                   power_pin, power_state, emergency, ringbuffer, messtimer, now,
                   sent, sideVars>>

\* send2track() with the power on and no fault: the periodic check has passed
\* (checks = 1) or was not due (checks = 0)
send2track_ok(o, checks, sample) ==
    LET sel == select_buffer(o)
    IN  /\ messtimer' = IF checks = 1 THEN [messtimer EXCEPT ![o] = now] ELSE messtimer
        /\ ringbuffer' = [ringbuffer EXCEPT ![o] = sel.buffer]
        /\ emergency' = [emergency EXCEPT ![o] = sel.emergency]
        /\ buffer_dirty' = [buffer_dirty EXCEPT ![o] = FALSE]
        /\ last' = Call("loop", o, "ok", sel.buffer, sel.rebuilt, checks, sample, clean[o])
        /\ sent' = [sent EXCEPT ![o] = sel.buffer]
        /\ clean' = [clean EXCEPT ![o] = TRUE]
        /\ pending' = FALSE

\* loop(): raises when the power is off, else send2track()
loop(o) ==
    /\ o <= nobj
    /\ IF loop_raises_power_off(o)
       THEN /\ last' = Call("loop", o, "poweroff", <<>>, FALSE, 0, 0, FALSE)
            /\ UNCHANGED <<elecVars, histVars>>
       ELSE IF ~power_state[o]
       THEN \* send2track() does nothing when self.power_state is not True
            /\ last' = Call("loop", o, "ok", <<>>, FALSE, 0, 0, FALSE)
            /\ UNCHANGED <<elecVars, histVars>>
       ELSE IF check_due(o)
       THEN \E sample \in Samples :
               IF chk_short_raises(sample)
               THEN /\ last' = Call("loop", o, "short", <<>>, FALSE, 1, sample, FALSE)
                    /\ UNCHANGED <<elecVars, histVars>>
               ELSE /\ send2track_ok(o, 1, sample)
                    /\ UNCHANGED power_state
       ELSE /\ send2track_ok(o, 0, 0)
            /\ UNCHANGED power_state
    /\ UNCHANGED <<nobj, locos, locoVars, power_pin, now, sideVars>>

\* the program actions say nothing of the observations checked_at, estopped
\* and fcall; a specification either leaves them alone or records them
Next ==
    \/ \E c \in Configs : Create(c) /\ UNCHANGED obsVars
    \/ Tick /\ UNCHANGED obsVars
    \/ \E o \in Obj : begin(o) /\ UNCHANGED obsVars
    \/ \E o \in Obj : deinit(o) /\ UNCHANGED obsVars
    \/ \E o \in Obj : emergency_stop(o) /\ UNCHANGED obsVars
    \/ \E o \in Obj : \E d \in DriveInputs : drive(o, d[1], d[2]) /\ UNCHANGED obsVars
    \/ \E o \in Obj : \E f \in FunctionInputs :
           set_function(o, f[1], f[2]) /\ UNCHANGED obsVars
    \/ \E o \in Obj : loop(o) /\ UNCHANGED obsVars

Spec == Init /\ [][Next]_vars

\* ------------------------------------------- the program, calls observed

\* the time of the latest chk_short() after a call that started at time now
CheckedAfter ==
    IF last'.outcome = "short" THEN -1
    ELSE IF last'.checks > 0 THEN now ELSE checked_at

\* a step that is no set_function(), drive() or emergency_stop(): a
\* chk_short() it made is timed at the start of the call
ObserveCall ==
    /\ checked_at' = CheckedAfter
    /\ fcall' = NoFunctionCall
    /\ UNCHANGED estopped

\* emergency_stop() on object o (deinit() calls it too)
ObserveStop(o) ==
    /\ estopped' = [estopped EXCEPT ![o] = IF @ = "sent" THEN @ ELSE "called"]
    /\ fcall' = NoFunctionCall
    /\ UNCHANGED checked_at

\* drive() on object o
ObserveDrive(o) ==
    /\ estopped' = [estopped EXCEPT ![o] = "no"]
    /\ fcall' = NoFunctionCall
    /\ UNCHANGED checked_at

\* set_function(function_nr, status) on object o
ObserveFunction(o, function_nr, status) ==
    /\ fcall' = [obj |-> o, function_nr |-> function_nr, status |-> status]
    /\ UNCHANGED <<checked_at, estopped>>

\* loop() on object o: the emergency stop called on o counts as sent once a
\* completed loop() of o has pushed the emergency buffer
ObserveLoop(o) ==
    /\ checked_at' = CheckedAfter
    /\ estopped' = [estopped EXCEPT ![o] =
                        IF /\ @ = "called"
                           /\ last'.outcome = "ok"
                           /\ last'.handed = emergency_buffer
                        THEN "sent" ELSE @]
    /\ fcall' = NoFunctionCall

NextObs ==
    \/ \E c \in Configs : Create(c) /\ ObserveCall
    \/ Tick /\ ObserveCall
    \/ \E o \in Obj : begin(o) /\ ObserveCall
    \/ \E o \in Obj : deinit(o) /\ ObserveStop(o)
    \/ \E o \in Obj : emergency_stop(o) /\ ObserveStop(o)
    \/ \E o \in Obj : \E d \in DriveInputs : drive(o, d[1], d[2]) /\ ObserveDrive(o)
    \/ \E o \in Obj : \E f \in FunctionInputs :
           set_function(o, f[1], f[2]) /\ ObserveFunction(o, f[1], f[2])
    \/ \E o \in Obj : loop(o) /\ ObserveLoop(o)

SpecObs == Init /\ [][NextObs]_vars

\* ------------------------------------------------- two constructed objects

\* the state after OPERATIONS(...) has been called twice at time 0
InitTwo ==
    \E c1 \in Configs : \E c2 \in Configs :
        LET cfg == <<c1, c2>> IN
        /\ c2.speedsteps = 28 \/ ~c2.registered
        /\ nobj = 2
        /\ locos = (IF c1.registered THEN <<1>> ELSE <<>>)
                   \o (IF c2.registered THEN <<2>> ELSE <<>>)
        /\ address = [o \in Obj |-> cfg[o].address]
        /\ use_long_address = [o \in Obj |-> cfg[o].use_long_address]
        /\ speedsteps = [o \in Obj |-> cfg[o].speedsteps]
        /\ current_speed = [o \in Obj |-> <<1, 0>>]
        /\ functions = [o \in Obj |-> <<128, 176, 160>>]
        /\ power_pin = FALSE
        /\ power_state = [o \in Obj |-> FALSE]
        /\ buffer_dirty = [o \in Obj |-> FALSE]
        /\ emergency = [o \in Obj |-> FALSE]
        /\ ringbuffer = [o \in Obj |-> <<>>]
        /\ messtimer = [o \in Obj |-> 0]
        /\ now = 0
        /\ last = NoCall
        /\ sent = [o \in Obj |-> <<>>]
        /\ clean = [o \in Obj |-> FALSE]
        /\ pending = FALSE
    /\ obsIdle
        /\ packet = <<>>
        /\ result = NoResult
    /\ encIdle
    /\ irqIdle

\* the calls of a program that drives both objects
NextTwo ==
    \/ \E o \in Obj : begin(o) /\ UNCHANGED obsVars
    \/ \E o \in Obj : drive(o, 0, 50) /\ UNCHANGED obsVars
    \/ \E o \in Obj : loop(o) /\ UNCHANGED obsVars

SpecTwo == InitTwo /\ [][NextTwo]_vars

\* ------------------------------------------------- one constructed object

\* the state after OPERATIONS(...) has been called once, at time 0, with
\* the constructor arguments c
Constructed(c) ==
    /\ nobj = 1
    /\ locos = (IF c.registered THEN <<1>> ELSE <<>>)
    /\ address = [o \in Obj |-> IF o = 1 THEN c.address ELSE 0]
    /\ use_long_address = [o \in Obj |-> IF o = 1 THEN c.use_long_address ELSE FALSE]
    /\ speedsteps = [o \in Obj |-> IF o = 1 THEN c.speedsteps ELSE 128]
    /\ current_speed = [o \in Obj |-> <<1, 0>>]
    /\ functions = [o \in Obj |-> <<128, 176, 160>>]
    /\ power_pin = FALSE
    /\ power_state = [o \in Obj |-> FALSE]
    /\ buffer_dirty = [o \in Obj |-> FALSE]
    /\ emergency = [o \in Obj |-> FALSE]
    /\ ringbuffer = [o \in Obj |-> <<>>]
    /\ messtimer = [o \in Obj |-> 0]
    /\ now = 0
    /\ last = NoCall
    /\ sent = [o \in Obj |-> <<>>]
    /\ clean = [o \in Obj |-> FALSE]
    /\ pending = FALSE
    /\ obsIdle
    /\ packet = <<>>
    /\ result = NoResult
    /\ encIdle
    /\ irqIdle

\* ----------------------------------------- the functions of a locomotive

\* the function numbers the program passes: F0..F12 and one beyond each end
FunctionNumbers == { f - 1 : f \in 0..14 }

InitFn ==
    Constructed([registered |-> TRUE, address |-> 3, use_long_address |-> FALSE,
                 speedsteps |-> 128])

\* the functions of object o that are on
FunctionsOn(o) == { g \in 0..12 : get_function(o, g) }

NextFn ==
    \E f \in FunctionNumbers : \E status \in BOOLEAN :
        /\ status => Cardinality(FunctionsOn(1) \ {f}) < MaxOn
        /\ set_function(1, f, status)
        /\ ObserveFunction(1, f, status)

SpecFn == InitFn /\ [][NextFn]_vars

\* ------------------------------------------ a locomotive in 14-step mode

\* OPERATIONS(address, use_long_address, speedsteps=14)
Configs14 ==
    { [registered |-> TRUE, address |-> 3,    use_long_address |-> FALSE, speedsteps |-> 14],
      [registered |-> TRUE, address |-> 1000, use_long_address |-> TRUE,  speedsteps |-> 14] }

Init14 == \E c \in Configs14 : Constructed(c)

Next14 ==
    \/ Tick /\ UNCHANGED obsVars
    \/ begin(1) /\ UNCHANGED obsVars
    \/ \E d \in DriveInputs : drive(1, d[1], d[2]) /\ UNCHANGED obsVars
    \/ loop(1) /\ UNCHANGED obsVars

Spec14 == Init14 /\ [][Next14]_vars

\* ------------------------------------------------- the packer on its own

\* the byte values tried in instructions
ByteSamples == {0, 1, 65, 255}

\* the instructions handed to prepare(): every row of 0..MaxPacketLen bytes
PacketInputs == UNION { [1..k -> ByteSamples] : k \in 0..MaxPacketLen }

InitPack ==
    /\ nobj = 0
    /\ locos = <<>>
    /\ address = [o \in Obj |-> 0]
    /\ use_long_address = [o \in Obj |-> FALSE]
    /\ speedsteps = [o \in Obj |-> 128]
    /\ current_speed = [o \in Obj |-> <<1, 0>>]
    /\ functions = [o \in Obj |-> <<128, 176, 160>>]
    /\ power_pin = FALSE
    /\ power_state = [o \in Obj |-> FALSE]
    /\ buffer_dirty = [o \in Obj |-> FALSE]
    /\ emergency = [o \in Obj |-> FALSE]
    /\ ringbuffer = [o \in Obj |-> <<>>]
    /\ messtimer = [o \in Obj |-> 0]
    /\ now = 0
    /\ last = NoCall
    /\ sent = [o \in Obj |-> <<>>]
    /\ clean = [o \in Obj |-> FALSE]
    /\ pending = FALSE
    /\ obsIdle
    /\ packet \in PacketInputs
    /\ result = NoResult
    /\ encIdle
    /\ irqIdle

\* l, w = self.prepare(instruction)
CallPrepare ==
    /\ ~result.done
    /\ result' = [done |-> TRUE, raised |-> prepare_raises(packet),
                  count |-> prepare(packet).count,
                  stream |-> prepare(packet).stream]
    /\ UNCHANGED <<progVars, now, last, histVars, obsVars, packet, encVars, irqVars>>

NextPack == CallPrepare

SpecPack == InitPack /\ [][NextPack]_vars

\* ------------------------------------- the hand-off of loop(), step by step

\* the mutant runs send2track() with DEBUG set
DEBUG_on == TRUE

\* DEBUG = False
DEBUG == FALSE

\* OPERATIONS(3), the locomotive whose loop() is followed step by step
InitIrq ==
    Constructed([registered |-> TRUE, address |-> 3, use_long_address |-> FALSE,
                 speedsteps |-> 128])

\* loop() up to the choice of the buffer: it raises with the power off or on
\* a short circuit, else the buffer to push is chosen
loop_select(o) ==
    /\ pc = "idle"
    /\ IF loop_raises_power_off(o)
       THEN /\ last' = Call("loop", o, "poweroff", <<>>, FALSE, 0, 0, FALSE)
            /\ UNCHANGED <<elecVars, irqVars>>
       ELSE \E sample \in Samples :
               IF check_due(o) /\ chk_short_raises(sample)
               THEN /\ last' = Call("loop", o, "short", <<>>, FALSE, 1, sample, FALSE)
                    /\ UNCHANGED <<elecVars, irqVars>>
               ELSE LET sel == select_buffer(o) IN
                    /\ messtimer' = IF check_due(o) THEN [messtimer EXCEPT ![o] = now]
                                                    ELSE messtimer
                    /\ ringbuffer' = [ringbuffer EXCEPT ![o] = sel.buffer]
                    /\ emergency' = [emergency EXCEPT ![o] = sel.emergency]
                    /\ queue' = sel.buffer
                    /\ pushed' = <<>>
                    /\ pc' = "selected"
                    /\ last' = NoCall
                    /\ UNCHANGED <<power_state, buffer_dirty, irq_enabled>>
    /\ UNCHANGED <<nobj, locos, locoVars, power_pin, now, histVars, obsVars,
                   packVars, encVars>>

\* if not DEBUG: state = machine.disable_irq()
loop_disable_irq ==
    /\ pc = "selected"
    /\ irq_enabled' = (IF DEBUG THEN irq_enabled ELSE FALSE)
    /\ pc' = "push"
    /\ last' = NoCall
    /\ UNCHANGED <<progVars, now, histVars, obsVars, packVars, encVars, queue, pushed>>

\* for word in buffer: self.statemachine.put(word)
loop_put ==
    /\ pc = "push"
    /\ queue # <<>>
    /\ pushed' = Append(pushed, Head(queue))
    /\ queue' = Tail(queue)
    /\ last' = NoCall
    /\ UNCHANGED <<progVars, now, histVars, obsVars, packVars, encVars, pc, irq_enabled>>

\* if not DEBUG: machine.enable_irq(state), state being what disable_irq()
\* returned: interrupts were enabled
loop_enable_irq ==
    /\ pc = "push"
    /\ queue = <<>>
    /\ irq_enabled' = (IF DEBUG THEN irq_enabled ELSE TRUE)
    /\ pc' = "enabled"
    /\ last' = NoCall
    /\ UNCHANGED <<progVars, now, histVars, obsVars, packVars, encVars, queue, pushed>>

\* self.buffer_dirty = False, and loop() returns
loop_return(o) ==
    /\ pc = "enabled"
    /\ buffer_dirty' = [buffer_dirty EXCEPT ![o] = FALSE]
    /\ pc' = "idle"
    /\ sent' = [sent EXCEPT ![o] = pushed]
    /\ last' = NoCall
    /\ UNCHANGED <<nobj, locos, locoVars, power_pin, power_state, emergency,
                   ringbuffer, messtimer, now, clean, pending, obsVars, packVars,
                   encVars, irq_enabled, queue, pushed>>

\* the main program calls begin() and lets time pass outside loop(); drive(),
\* set_function() and emergency_stop() are also called from interrupt
\* handlers, which run wherever interrupts are enabled
NextIrq ==
    \/ pc = "idle" /\ Tick /\ UNCHANGED obsVars
    \/ pc = "idle" /\ begin(1) /\ UNCHANGED obsVars
    \/ irq_enabled /\ drive(1, 0, 50) /\ UNCHANGED obsVars
    \/ irq_enabled /\ set_function(1, 0, TRUE) /\ UNCHANGED obsVars
    \/ irq_enabled /\ emergency_stop(1) /\ UNCHANGED obsVars
    \/ loop_select(1)
    \/ loop_disable_irq
    \/ loop_put
    \/ loop_enable_irq
    \/ loop_return(1)

SpecIrq == InitIrq /\ [][NextIrq]_vars

\* ------------------------------------------ the speed encoders on their own

\* the arguments handed to the encoders: either direction, emergency stop
\* (-1), stop (0) and every step up to MaxSpeed, in 28- and 128-step mode
EncodeInputs ==
    { [done |-> FALSE, mode |-> m, direction |-> d, speed |-> sp - 1, byte |-> 0] :
        m \in {28, 128}, d \in {0, 1}, sp \in 0..(MaxSpeed + 1) }

InitEnc ==
    /\ nobj = 0
    /\ locos = <<>>
    /\ address = [o \in Obj |-> 0]
    /\ use_long_address = [o \in Obj |-> FALSE]
    /\ speedsteps = [o \in Obj |-> 128]
    /\ current_speed = [o \in Obj |-> <<1, 0>>]
    /\ functions = [o \in Obj |-> <<128, 176, 160>>]
    /\ power_pin = FALSE
    /\ power_state = [o \in Obj |-> FALSE]
    /\ buffer_dirty = [o \in Obj |-> FALSE]
    /\ emergency = [o \in Obj |-> FALSE]
    /\ ringbuffer = [o \in Obj |-> <<>>]
    /\ messtimer = [o \in Obj |-> 0]
    /\ now = 0
    /\ last = NoCall
    /\ sent = [o \in Obj |-> <<>>]
    /\ clean = [o \in Obj |-> FALSE]
    /\ pending = FALSE
    /\ obsIdle
    /\ packet = <<>>
    /\ result = NoResult
    /\ enc \in EncodeInputs
    /\ irqIdle

\* the call generate_instructions() makes for the locomotive's mode:
\* self.speed_control_128steps(Dir, FS) or self.speed_control_28steps(Dir, FS)
CallEncode ==
    /\ ~enc.done
    /\ enc' = [enc EXCEPT
                  !.done = TRUE,
                  !.byte = IF enc.mode = 128
                           THEN speed_control_128steps(enc.direction, enc.speed)
                           ELSE speed_control_28steps(enc.direction, enc.speed)]
    /\ UNCHANGED <<progVars, now, last, histVars, obsVars, packVars, irqVars>>

NextEnc == CallEncode

SpecEnc == InitEnc /\ [][NextEnc]_vars

\* ------------------------------------------- the wire format, read directly

Ones(n) == [i \in 1..n |-> 1]

\* the 8 bits of a byte, most significant first
RefBits8(b) == [i \in 1..8 |-> (b \div Pow2(8 - i)) % 2]

RECURSIVE RefBody(_)
\* per byte a 0 start bit and its 8 bits, then the 1 stop bit
RefBody(bytes) ==
    IF bytes = <<>> THEN <<1>>
    ELSE <<0>> \o RefBits8(Head(bytes)) \o RefBody(Tail(bytes))

RECURSIVE RefParity(_, _)
\* the number of bytes that have bit k set, modulo 2
RefParity(bytes, k) ==
    IF bytes = <<>> THEN 0
    ELSE (((Head(bytes) \div Pow2(k)) % 2) + RefParity(Tail(bytes), k)) % 2

\* the XOR of a row of bytes, bit by bit
RefXor(bytes) ==
    RefParity(bytes, 0) + 2 * RefParity(bytes, 1) + 4 * RefParity(bytes, 2)
    + 8 * RefParity(bytes, 3) + 16 * RefParity(bytes, 4) + 32 * RefParity(bytes, 5)
    + 64 * RefParity(bytes, 6) + 128 * RefParity(bytes, 7)

RECURSIVE RefValue(_)
\* the number a row of bits spells, most significant first
RefValue(bits) ==
    IF bits = <<>> THEN 0 ELSE 2 * RefValue(SubSeq(bits, 1, Len(bits) - 1)) + bits[Len(bits)]

RECURSIVE DecodeFrom(_, _)
\* the bytes of a frame from start-bit position i on; <<-1>> marks a frame
\* that does not end with its stop bit
DecodeFrom(bits, i) ==
    IF i > Len(bits) THEN <<-1>>
    ELSE IF bits[i] = 1 THEN (IF i = Len(bits) THEN <<>> ELSE <<-1>>)
    ELSE IF i + 8 > Len(bits) THEN <<-1>>
    ELSE <<RefValue(SubSeq(bits, i + 1, i + 8))>> \o DecodeFrom(bits, i + 9)

\* the length of the leading run of one-bits
PreambleLen(bits) ==
    IF \A i \in 1..Len(bits) : bits[i] = 1 THEN Len(bits)
    ELSE (CHOOSE i \in 1..Len(bits) : bits[i] = 0 /\ \A j \in 1..(i - 1) : bits[j] = 1) - 1

\* what a decoder reads from a frame: the bytes after the preamble
Decode(bits) == DecodeFrom(bits, PreambleLen(bits) + 1)

\* the bits of a word sequence as transmitted: 32 per word
RECURSIVE WordBits(_)
WordBits(ws) == IF ws = <<>> THEN <<>> ELSE PadTo(Head(ws), 32) \o WordBits(Tail(ws))

\* the least number of 32-bit words that holds a frame of n instruction
\* bytes with the 14-bit preamble
MinWords(n) == (14 + 9 * (n + 1) + 1 + 31) \div 32

\* the bits of the frame of an instruction: the padding in front
RefFrame(bytes) ==
    LET body == RefBody(Append(bytes, RefXor(bytes)))
    IN  Ones(32 * MinWords(Len(bytes)) - Len(body)) \o body

\* the instructions of one locomotive as the wire format states them
RefAddress(o) ==
    IF use_long_address[o]
    THEN <<192 + address[o] \div 256, address[o] % 256>>
    ELSE <<address[o]>>

RefSpeed(o) ==
    IF speedsteps[o] = 128
    THEN <<63, speed_control_128steps(current_speed[o][1], current_speed[o][2])>>
    ELSE <<speed_control_28steps(current_speed[o][1], current_speed[o][2])>>

RefLoco(o) ==
    RefFrame(RefAddress(o) \o RefSpeed(o))
    \o RefFrame(RefAddress(o) \o <<functions[o][1]>>)
    \o RefFrame(RefAddress(o) \o <<functions[o][2]>>)
    \o RefFrame(RefAddress(o) \o <<functions[o][3]>>)

RECURSIVE RefRegistry(_)
RefRegistry(ls) == IF ls = <<>> THEN <<>> ELSE RefLoco(Head(ls)) \o RefRegistry(Tail(ls))

\* a loop() call of object o has just completed
LoopDone(o) == last.op = "loop" /\ last.obj = o /\ last.outcome = "ok"

\* ------------------------------------------------------------- the claims

\* C1: once the power is on, every loop() that completes without a fault
\* hands a non-empty word sequence to the state machine.
C1_NeverEmpty ==
    \A o \in Obj : LoopDone(o) => last.handed # <<>>

\* C2: with the power on and the emergency flag set, the next completed loop()
\* hands off exactly the Emergency sequence 5 times (10 words) and leaves the
\* emergency flag false, whatever the dirty flag is.
C2_EmergencyNext ==
    [][\A o \in Obj :
          (power_state[o] /\ emergency[o] /\ LoopDone(o)')
          => (last'.handed = EMERG \o EMERG \o EMERG \o EMERG \o EMERG
              /\ Len(last'.handed) = 10
              /\ ~emergency'[o])]_vars

\* C3: after drive() or set_function() on a registered locomotive, the next
\* completed loop() of any registered locomotive whose emergency flag is clear
\* hands off the buffer rebuilt from the current registry state.
C3_RebuildAnyDirty ==
    [][\A o \in Obj :
          (pending /\ RegisteredObj(o) /\ ~emergency[o] /\ LoopDone(o)')
          => (last'.rebuilt /\ WordBits(last'.handed) = RefRegistry(locos))]_vars

\* C4: every completed loop() leaves the object's dirty flag false; a loop()
\* that follows a completed loop() of the same object with no drive,
\* set_function or emergency_stop in between hands off the same words again,
\* does not call generate_instructions(), and leaves the retained buffer and
\* every locomotive's speed and function state unchanged.
C4_ResendUnchanged ==
    [][\A o \in Obj :
          LoopDone(o)'
          => (/\ ~buffer_dirty'[o]
              /\ clean[o] => (/\ last'.handed = sent[o]
                              /\ ~last'.rebuilt
                              /\ ringbuffer'[o] = ringbuffer[o]
                              /\ current_speed' = current_speed
                              /\ functions' = functions))]_vars

\* C4 witness: a completed loop() that followed a completed loop() without a
\* mutation in between, after the periodic check ran, resending a buffer.
C4_Witness ==
    /\ LoopDone(1) /\ last.again /\ last.checks = 1
    /\ last.handed # <<>> /\ sent[1] = last.handed

\* C5: a loop() in which the periodic check runs fails with the overcurrent
\* fault exactly when the sampled current is above 1000 mA; when it fails no
\* word is handed off and the dirty flag, the retained buffer and the power
\* state (still on) are unchanged.
C5_Overcurrent ==
    [][\A o \in Obj :
          (last'.op = "loop" /\ last'.obj = o /\ last'.checks = 1)
          => (/\ (last'.outcome = "short") <=> (last'.sample > 1000)
              /\ last'.outcome \in {"short", "ok"}
              /\ last'.outcome = "short"
                 => (/\ last'.handed = <<>>
                     /\ buffer_dirty' = buffer_dirty
                     /\ ringbuffer' = ringbuffer
                     /\ emergency' = emergency
                     /\ power_state' = power_state
                     /\ power_state'[o]
                     /\ power_pin' = power_pin))]_vars

\* C5 witness: a loop() ended by the overcurrent fault at 1001 mA.
C5_Witness ==
    /\ last.op = "loop" /\ last.outcome = "short" /\ last.sample = 1001
    /\ power_state[last.obj]

ValidPacket == 2 <= Len(packet) /\ Len(packet) <= 5

\* C7: for an instruction of 2 to 5 bytes the bits of the stream, most
\* significant first, are a run of at least 14 one-bits, then per instruction
\* byte and then for the checksum byte a 0 and the 8 bits of the byte, then a
\* single 1; the checksum is the XOR of the instruction bytes, the XOR of all
\* framed bytes is 0, and decoding the frame returns the instruction bytes.
C7_FrameFormat ==
    (result.done /\ ValidPacket)
    => LET bits   == result.stream
           framed == Append(packet, RefXor(packet))
           body   == RefBody(framed)
           pre    == Len(bits) - Len(body)
       IN  /\ pre >= 14
           /\ bits = Ones(pre) \o body
           /\ Decode(bits) = framed
           /\ SubSeq(Decode(bits), 1, Len(packet)) = packet
           /\ RefXor(Decode(bits)) = 0

\* C7 witness: a five-byte instruction has been framed.
C7_Witness ==
    /\ result.done /\ Len(packet) = 5 /\ packet[1] = 255 /\ packet[5] = 65
    /\ result.count = 3

\* C8: for an instruction of n bytes, 2 <= n <= 5, the framed bit length is
\* a multiple of 32, padding is only extra leading one-bits (the frame ends
\* with the stop bit), and the word count is ceil((14 + 9 * (n + 1) + 1) / 32).
C8_WordAligned ==
    (result.done /\ ValidPacket)
    => LET bits == result.stream
           n    == Len(packet)
           body == 9 * (n + 1) + 1
       IN  /\ Len(bits) % 32 = 0
           /\ Len(bits) = 32 * result.count
           /\ result.count = MinWords(n)
           /\ result.count * 32 >= 14 + body
           /\ (result.count - 1) * 32 < 14 + body
           /\ PreambleLen(bits) = Len(bits) - body
           /\ bits[Len(bits)] = 1
           /\ Len(Decode(bits)) = n + 1
           /\ \A i \in 1..(n + 1) : Decode(bits)[i] >= 0

\* C8 witness: a two-word and a three-word frame exist; this one has 3 words.
C8_Witness ==
    result.done /\ Len(packet) = 5 /\ result.count = 3 /\ Len(result.stream) = 96

\* C9: for a registry of n locomotives in 28- or 128-step mode the rebuilt
\* buffer holds, per locomotive in registry order, the speed packet and then
\* three function-group packets, each word-aligned with its checksum; for an
\* empty registry it is the Idle sequence.
C9_RebuildContent ==
    \A o \in Obj :
        (LoopDone(o) /\ last.rebuilt
         /\ \A i \in 1..Len(locos) : speedsteps[locos[i]] \in {28, 128})
        => IF locos = <<>>
           THEN last.handed = IDLE
           ELSE /\ WordBits(last.handed) = RefRegistry(locos)
                /\ Len(last.handed) = 8 * Len(locos)

\* C9 witness: a buffer rebuilt for two locomotives, the first one driven.
C9_Witness ==
    /\ last.op = "loop" /\ last.outcome = "ok" /\ last.rebuilt
    /\ Len(locos) = 2 /\ current_speed[1] = <<0, 50>>
    /\ speedsteps[1] = 128 /\ speedsteps[2] = 28

C11_RejectsBadLength ==
    (result.done /\ ~ValidPacket)
    => /\ result.raised
       /\ result.count = 0
       /\ packet_words(result) = <<>>

\* the first Len(p) elements of s are p
IsPrefix(p, s) == Len(p) <= Len(s) /\ SubSeq(s, 1, Len(p)) = p

\* object o is about to rebuild: power on, dirty, no emergency pending
RebuildDue(o) == power_state[o] /\ buffer_dirty[o] /\ ~emergency[o]

\* C12: with a registered locomotive in 14-step mode, short or long address,
\* a rebuild fails with an unsupported-mode error, and no packet made only of
\* the locomotive's address bytes and a checksum is handed off.
C12_Rejects14 ==
    [][\A o \in Obj :
          (/\ RebuildDue(o)
           /\ RegisteredObj(o) /\ speedsteps[o] = 14
           /\ last'.op = "loop" /\ last'.obj = o /\ last'.outcome # "short")
          => /\ last'.outcome = "unsupported"
             /\ ~IsPrefix(RefFrame(RefAddress(o)), WordBits(last'.handed))]_vars

\* C13: set_function() with a function number below 0 or above 12 changes
\* nothing: the function group bytes, the speed state, the dirty flag and the
\* emergency flag are as before the call.
C13_OutOfRangeNoOp ==
    [][\A o \in Obj :
          (fcall'.obj = o /\ (fcall'.function_nr < 0 \/ fcall'.function_nr > 12))
          => /\ functions' = functions
             /\ current_speed' = current_speed
             /\ buffer_dirty' = buffer_dirty
             /\ emergency' = emergency]_vars

\* the function group bytes of object o carry their group prefix in 8 bits:
\* 100 (F0..F4), 1011 (F5..F8), 1010 (F9..F12)
GroupPrefixes(o) ==
    /\ \A g \in 1..3 : functions[o][g] \in 0..255
    /\ functions[o][1] \div 32 = 4
    /\ functions[o][2] \div 16 = 11
    /\ functions[o][3] \div 16 = 10

\* C14: after set_function(fn, on) with fn in 0..12, get_function(fn) is on,
\* get_function(g) is what it was for every other g in 0..12, and each group
\* byte keeps its prefix; get_function() is false outside 0..12.
C14_SetGetLaw ==
    [][\A o \in Obj :
          (fcall'.obj = o /\ fcall'.function_nr \in 0..12)
          => /\ get_function_of(functions'[o], fcall'.function_nr) = fcall'.status
             /\ \A g \in 0..12 :
                   g # fcall'.function_nr => get_function(o, g)' = get_function(o, g)
             /\ GroupPrefixes(o)'
             /\ \A g \in FunctionNumbers \ (0..12) : get_function(o, g)' = FALSE]_vars

\* C14 witness: F12 has been switched on after F0 and F5, and F4 is off.
C14_Witness ==
    /\ fcall.obj = 1 /\ fcall.function_nr = 12 /\ fcall.status
    /\ get_function(1, 12) /\ get_function(1, 0) /\ get_function(1, 5)
    /\ ~get_function(1, 4)

\* the greatest speed step of a mode
TopStep(mode) == IF mode = 128 THEN 127 ELSE 28

\* what the encoder of a mode returns
Encoded(mode, direction, speed) ==
    IF mode = 128 THEN speed_control_128steps(direction, speed)
    ELSE speed_control_28steps(direction, speed)

\* C15: for either direction and every speed step above the greatest step
\* of the mode (28, 127), the encoded byte is that of the greatest step.
C15_SpeedClamped ==
    (enc.done /\ enc.speed > TopStep(enc.mode))
    => enc.byte = Encoded(enc.mode, enc.direction, TopStep(enc.mode))

\* the 5-bit code field of the 28-step instruction: 0 for stop and emergency
\* stop, else bit 0 of step + 3 as bit 4 and the rest of step + 3 below it
RefCode28(speed) ==
    IF speed <= 0 THEN 0 ELSE ((speed + 3) % 2) * 16 + (speed + 3) \div 2

C17_StepCodes ==
    (enc.done /\ enc.mode = 128 /\ enc.speed \in 1..126)
    => enc.byte % 128 = enc.speed + 1

\* C18: interrupts are disabled from before the first word of a buffer is
\* pushed until after the last, and enabled when loop() has returned; every
\* step taken between two pushes of one buffer is a push of its next word,
\* and the words pushed are the words of the one buffer chosen, in order.
C18_AtomicHandOff ==
    [][/\ pc' = "push" => ~irq_enabled'
       /\ pc' = "idle" => irq_enabled'
       /\ (pc = "push" /\ pc' = "push")
          => (pushed' = Append(pushed, Head(queue)) /\ queue' = Tail(queue))
       /\ pc' = "push" => pushed' \o queue' = ringbuffer'[1]
       /\ pc' = "enabled" => pushed' = ringbuffer'[1]]_vars

\* C18 witness: a loop() that rebuilt the buffer has pushed its first 3 words
\* and has more to push.
C18_Witness ==
    /\ pc = "push" /\ Len(pushed) = 3 /\ queue # <<>>
    /\ ~irq_enabled
    /\ WordBits(pushed \o queue) = RefRegistry(locos)

\* C19: begin() runs the overcurrent check exactly once, and a check is at
\* least 100 ms after the check before it, whether begin() or loop() made
\* them (checks made by one call are made at the same time).
C19_CheckCadence ==
    [][/\ (last'.op = "begin" /\ last'.outcome = "ok") => last'.checks = 1
       /\ last'.outcome = "ok" => last'.checks <= 1
       /\ (last'.outcome = "ok" /\ last'.checks > 0 /\ checked_at >= 0)
          => now - checked_at >= CHECK_INTERVAL]_vars

\* the speed byte of the first packet of the words handed off
HandedSpeedByte ==
    LET bytes == Decode(SubSeq(WordBits(last.handed), 1, 64))
    IN  bytes[Len(bytes) - 1]

\* the speed code of a speed byte is stop or emergency stop
StopCode(mode, byte) ==
    IF mode = 128 THEN byte % 128 \in {0, 1} ELSE byte % 16 \in {0, 1}

\* C20: once a loop() has pushed the emergency stop of a locomotive and
\* drive() has not been called since emergency_stop(), every completed loop()
\* hands off the emergency buffer again or a speed packet with a stop code.
C20_EmergencyHolds ==
    \A o \in Obj :
        (LoopDone(o) /\ RegisteredObj(o) /\ estopped[o] = "sent")
        => \/ last.handed = emergency_buffer
           \/ /\ last.rebuilt
              /\ StopCode(speedsteps[o], HandedSpeedByte)

====
